---------------------------- MODULE Spec2Model ----------------------------
(***************************************************************************)
(* A model of the sliding-tile puzzle of src/src/slide_puzzle/puzzle.py:   *)
(* the immutable SlidePuzzleState value (construction, geometry, moves,    *)
(* heuristic, shuffle) and the A* search solve_puzzle; and of the window   *)
(* of src/src/slide_puzzle/gui.py that runs the search on a thread and     *)
(* replays its moves.                                                      *)
(*                                                                         *)
(* A puzzle state is the record [size |-> n, tiles |-> <<...>>].  Python   *)
(* indexes tiles from 0 and TLA+ sequences from 1: cell index i of the     *)
(* source is tiles[i + 1] here, and every index below is the source's.     *)
(***************************************************************************)
EXTENDS Integers, Sequences, FiniteSets, TLC

VARIABLES
    buf,        \* the sequence a caller is assembling to pass to from_sequence
    res,        \* the last call made on the state API: its arguments and outcome
    state,      \* the state the caller holds (gui.py: self.state)
    nmoves,     \* how many moves the caller has applied to its state
    sh_pc,      \* shuffle: "idle", "loop", "returned" or "IndexError"
    sh_state,   \* shuffle: its local `state`
    last_tile,  \* shuffle: its local `last_tile` (NoTile for None)
    sh_left,    \* shuffle: iterations of `for _ in range(moves)` still to run
    sh_path,    \* shuffle: the tiles chosen so far, in order
    start,      \* solve_puzzle: its argument
    pc,         \* solve_puzzle: "idle", "loop", "done" or "failed"
    frontier,   \* solve_puzzle: the heap, as the set of its entries
    counter,    \* solve_puzzle: its local `counter`
    came_from,  \* solve_puzzle: its local `came_from`
    g_score,    \* solve_puzzle: its local `g_score`
    result,     \* solve_puzzle: what the call returned or raised
    pops,       \* solve_puzzle: the states popped by this call, in order
    hist,       \* the completed solve_puzzle calls: start, outcome, pops
    grid_size,  \* gui.py: self.grid_size
    solving,    \* gui.py: self._solving
    shuffle_btn, \* gui.py: the Shuffle button is enabled (tk.NORMAL)
    solve_btn,  \* gui.py: the Solve button is enabled (tk.NORMAL)
    status,     \* gui.py: the text of self.status_var
    dialog,     \* gui.py: load_image is waiting in its file dialog
    worker,     \* gui.py: the solver thread: "none", "started" or "running"
    threads,    \* gui.py: how many solver threads are alive
    timers,     \* gui.py: the callbacks handed to self.after and not yet run
    ev          \* gui.py: the handler that ran last on the main thread

ctorVars == <<buf, res>>
boardVars == <<state, nmoves>>
shuffleVars == <<sh_pc, sh_state, last_tile, sh_left, sh_path>>
solveVars == <<start, pc, frontier, counter, came_from, g_score, result, pops, hist>>
guiVars == <<grid_size, solving, shuffle_btn, solve_btn, status, dialog, worker,
             threads, timers, ev>>
vars == <<buf, res, state, nmoves, sh_pc, sh_state, last_tile, sh_left, sh_path,
          start, pc, frontier, counter, came_from, g_score, result, pops, hist,
          grid_size, solving, shuffle_btn, solve_btn, status, dialog, worker,
          threads, timers, ev>>

-----------------------------------------------------------------------------
(* Bounds of the model. *)

\* Longest sequence handed to from_sequence; its values range over -1..MaxLen.
MaxLen == 4

\* Sizes handed to solved and from_sequence range over -MaxSizeArg..MaxSizeArg.
MaxSizeArg == 2

\* Moves a caller applies to the state it started with.
MaxMoves == 3

\* Largest `moves` argument given to shuffle.
MaxShuffle == 4

\* 3x3 start states of the solver lie within this many moves of solved(3).
MaxDepth == 6

\* Consecutive solve_puzzle calls made on the same start state.
MaxCalls == 2

\* In the GUI, the states shuffle hands back lie within this many moves of
\* the solved state.
GuiDepth == 2

-----------------------------------------------------------------------------
(* Values that are not states. *)

\* Python's None, as returned by move_tile and move_blank.
None == [tag |-> "None"]

\* The ValueError raised by __post_init__ and by solve_puzzle.
ValueError == [tag |-> "ValueError"]

\* The IndexError raised by rng.choice on an empty list.
IndexError == [tag |-> "IndexError"]

\* The list of tiles solve_puzzle returns.
Returned(moves) == [tag |-> "list", moves |-> moves]

\* shuffle's `last_tile = None`: no tile value is negative.
NoTile == -1

IsState(v) == DOMAIN v = {"size", "tiles"}

-----------------------------------------------------------------------------
(* SlidePuzzleState *)

Abs(n) == IF n < 0 THEN -n ELSE n

\* Python's tuple(range(a, b)).
Range(a, b) == [i \in 1..(IF b > a THEN b - a ELSE 0) |-> a + i - 1]

Elements(seq) == {seq[i] : i \in 1..Len(seq)}

\* __post_init__ without its length check.
PostInitNoLengthCheck(size, tiles) ==
    LET expected == 0..(size * size - 1)
        missing == expected \ Elements(tiles)
    IN  missing # {}

\* __post_init__: the length check, then the missing-value check.
PostInitRaises(size, tiles) ==
    \/ Len(tiles) # size * size
    \/ LET expected == 0..(size * size - 1)
           missing == expected \ Elements(tiles)
       IN  missing # {}

\* SlidePuzzleState(size, tiles): the state, or the ValueError of __post_init__.
NewState(size, tiles) ==
    IF PostInitRaises(size, tiles)
    THEN ValueError
    ELSE [size |-> size, tiles |-> tiles]

\* tiles.index(tile): the first index holding the value.
IndexOf(s, tile) ==
    CHOOSE i \in 0..(Len(s.tiles) - 1) :
        /\ s.tiles[i + 1] = tile
        /\ \A j \in 0..(i - 1) : s.tiles[j + 1] # tile

BlankIndex(s) == IndexOf(s, 0)

\* divmod(index, size), for size >= 1.
Coordinates(s, index) == <<index \div s.size, index % s.size>>

SolvedTiles(size) == Range(1, size * size) \o <<0>>

\* is_solved comparing with tuple(range(size * size)): the blank first.
IsSolvedBlankFirst(s) == s.tiles = Range(0, s.size * s.size)

IsSolved(s) == s.tiles = SolvedTiles(s.size)

Solved(size) == NewState(size, SolvedTiles(size))

FromSequence(size, sequence) == NewState(size, sequence)

\* swap with the two cells assigned one after the other: the second
\* assignment reads the cell the first one has overwritten.
SwapSequentialAssign(s, idx_a, idx_b) ==
    LET tiles_list == [s.tiles EXCEPT ![idx_a + 1] = s.tiles[idx_b + 1]]
    IN  NewState(s.size, tiles_list)

\* swap: copy the tiles, exchange two cells, build a new state.
Swap(s, idx_a, idx_b) ==
    LET tiles_list == [s.tiles EXCEPT ![idx_a + 1] = s.tiles[idx_b + 1],
                                      ![idx_b + 1] = s.tiles[idx_a + 1]]
    IN  NewState(s.size, tiles_list)


\* move_tile with the adjacency test on row-major indexes instead of on grid
\* coordinates.
MoveTileByIndex(s, tile) ==
    LET tile_index == IndexOf(s, tile)
    IN  IF Abs(BlankIndex(s) - tile_index) \notin {1, s.size}
        THEN None
        ELSE Swap(s, BlankIndex(s), tile_index)

\* move_tile: None unless the tile is at Manhattan distance 1 from the blank.
MoveTile(s, tile) ==
    LET tile_index == IndexOf(s, tile)
        b == Coordinates(s, BlankIndex(s))
        t == Coordinates(s, tile_index)
    IN  IF Abs(b[1] - t[1]) + Abs(b[2] - t[2]) # 1
        THEN None
        ELSE Swap(s, BlankIndex(s), tile_index)

\* The (dx, dy) list with the horizontal steps first.
DirectionsLeftFirst == << <<0, -1>>, <<0, 1>>, <<-1, 0>>, <<1, 0>> >>

\* The (dx, dy) list of legal_moves: up, down, left, right.
Directions == << <<-1, 0>>, <<1, 0>>, <<0, -1>>, <<0, 1>> >>

\* The pairs legal_moves yields for the directions dirs, in order.
RECURSIVE MovesAlong(_, _)
MovesAlong(s, dirs) ==
    IF dirs = <<>>
    THEN <<>>
    ELSE LET rc == Coordinates(s, BlankIndex(s))
             nr == rc[1] + Head(dirs)[1]
             nc == rc[2] + Head(dirs)[2]
             idx == nr * s.size + nc
         IN  IF 0 <= nr /\ nr < s.size /\ 0 <= nc /\ nc < s.size
             THEN << <<s.tiles[idx + 1], Swap(s, BlankIndex(s), idx)>> >>
                      \o MovesAlong(s, Tail(dirs))
             ELSE MovesAlong(s, Tail(dirs))

\* legal_moves with the column bound left out: a step off the right edge
\* lands on the next row's first cell.
LegalMovesNoColumnBound(s) ==
    LET rc == Coordinates(s, BlankIndex(s))
        Step(d) ==
            LET nr == rc[1] + d[1]
                nc == rc[2] + d[2]
                idx == nr * s.size + nc
            IN  IF 0 <= nr /\ nr < s.size /\ 0 <= idx /\ idx < s.size * s.size
                THEN << <<s.tiles[idx + 1], Swap(s, BlankIndex(s), idx)>> >>
                ELSE <<>>
    IN  Step(Directions[1]) \o Step(Directions[2])
            \o Step(Directions[3]) \o Step(Directions[4])

\* legal_moves: the list of (tile, resulting state) pairs it yields.
LegalMoves(s) == MovesAlong(s, Directions)

\* manhattan_distance with the blank counted as a tile whose goal is the
\* last cell.
RECURSIVE DistanceFromCountingBlank(_, _)
DistanceFromCountingBlank(s, idx) ==
    IF idx >= Len(s.tiles)
    THEN 0
    ELSE LET value == s.tiles[idx + 1]
             goal_idx == IF value = 0 THEN Len(s.tiles) - 1 ELSE value - 1
             g == <<goal_idx \div s.size, goal_idx % s.size>>
             c == Coordinates(s, idx)
         IN  Abs(g[1] - c[1]) + Abs(g[2] - c[2])
                 + DistanceFromCountingBlank(s, idx + 1)

\* manhattan_distance with goal_positions[value] taken to be value.
RECURSIVE DistanceFromGoalAtValue(_, _)
DistanceFromGoalAtValue(s, idx) ==
    IF idx >= Len(s.tiles)
    THEN 0
    ELSE LET value == s.tiles[idx + 1]
             goal_idx == value
             g == <<goal_idx \div s.size, goal_idx % s.size>>
             c == Coordinates(s, idx)
         IN  (IF value = 0 THEN 0 ELSE Abs(g[1] - c[1]) + Abs(g[2] - c[2]))
                 + DistanceFromGoalAtValue(s, idx + 1)

\* manhattan_distance: goal_positions[value] is value - 1.
RECURSIVE DistanceFrom(_, _)
DistanceFrom(s, idx) ==
    IF idx >= Len(s.tiles)
    THEN 0
    ELSE LET value == s.tiles[idx + 1]
             goal_idx == value - 1
             g == <<goal_idx \div s.size, goal_idx % s.size>>
             c == Coordinates(s, idx)
         IN  (IF value = 0 THEN 0 ELSE Abs(g[1] - c[1]) + Abs(g[2] - c[2]))
                 + DistanceFrom(s, idx + 1)

ManhattanDistance(s) == DistanceFrom(s, 0)

-----------------------------------------------------------------------------
(* What the variables hold while the part of the program they belong to is *)
(* not running.                                                            *)

NoCall == [op |-> "none"]

EmptyMap == [x \in {} |-> 0]

CtorIdle == buf = <<>> /\ res = NoCall

BoardIdle == state = None /\ nmoves = 0

ShuffleIdle ==
    /\ sh_pc = "idle"
    /\ sh_state = None
    /\ last_tile = NoTile
    /\ sh_left = 0
    /\ sh_path = <<>>

SolveIdle ==
    /\ start = None
    /\ pc = "idle"
    /\ frontier = {}
    /\ counter = 0
    /\ came_from = EmptyMap
    /\ g_score = EmptyMap
    /\ result = None
    /\ pops = <<>>
    /\ hist = <<>>

\* SlidePuzzleApp.__init__ with grid_size n: no state yet, both buttons
\* disabled, nothing running.  (self.state = None is BoardIdle.)
AppConstructed(n) ==
    /\ grid_size = n
    /\ solving = FALSE
    /\ shuffle_btn = FALSE
    /\ solve_btn = FALSE
    /\ status = "Upload an image!!"
    /\ dialog = FALSE
    /\ worker = "none"
    /\ threads = 0
    /\ timers = {}
    /\ ev = "__init__"

\* The application with its default grid size, left alone.
GuiIdle == AppConstructed(3)

-----------------------------------------------------------------------------
(* Construction: a caller assembles a sequence and hands it, with a size,  *)
(* to from_sequence (or to SlidePuzzleState itself), or asks for solved.   *)

SizeArgs == (0 - MaxSizeArg)..MaxSizeArg

ValueArgs == (0 - 1)..MaxLen

AppendValue(v) ==
    /\ Len(buf) < MaxLen
    /\ buf' = Append(buf, v)
    /\ res' = NoCall
    /\ UNCHANGED <<boardVars, shuffleVars, solveVars, guiVars>>

CallFromSequence(size) ==
    /\ res' = [op |-> "from_sequence", size |-> size, sequence |-> buf,
               value |-> FromSequence(size, buf)]
    /\ UNCHANGED <<buf, boardVars, shuffleVars, solveVars, guiVars>>

CallSolved(size) ==
    /\ res' = [op |-> "solved", size |-> size, value |-> Solved(size)]
    /\ UNCHANGED <<buf, boardVars, shuffleVars, solveVars, guiVars>>

InitCtor == CtorIdle /\ BoardIdle /\ ShuffleIdle /\ SolveIdle /\ GuiIdle

NextCtor ==
    \/ \E v \in ValueArgs : AppendValue(v)
    \/ \E size \in SizeArgs : CallFromSequence(size)
    \/ \E size \in SizeArgs : CallSolved(size)

SpecCtor == InitCtor /\ [][NextCtor]_vars

-----------------------------------------------------------------------------
(* Claims about construction (checked under SpecCtor). *)

\* How often value v occurs in seq.
Occurrences(seq, v) == Cardinality({i \in 1..Len(seq) : seq[i] = v})

\* seq is a permutation of 0..n-1: nothing outside the range, every value of
\* the range exactly once.
IsPermutation(seq, n) ==
    /\ \A i \in 1..Len(seq) : seq[i] \in 0..(n - 1)
    /\ \A v \in 0..(n - 1) : Occurrences(seq, v) = 1

\* C4: from_sequence / SlidePuzzleState(size, tiles) raises whenever the
\* sequence's length differs from size*size or the sequence is not a
\* permutation of 0..size*size-1; so a state that was constructed has exactly
\* size*size tiles and holds each value 0..size*size-1 exactly once.
C4_ConstructionValidates ==
    res.op = "from_sequence" =>
        /\ (Len(res.sequence) # res.size * res.size
              \/ ~IsPermutation(res.sequence, res.size * res.size))
               => res.value = ValueError
        /\ IsState(res.value) =>
              /\ res.value.size = res.size
              /\ Len(res.value.tiles) = res.size * res.size
              /\ \A v \in 0..(res.size * res.size - 1) :
                     Occurrences(res.value.tiles, v) = 1

\* C4 witness: a sequence of the right length for size 2 with a duplicate and
\* a missing value was rejected, and a permutation was accepted.
C4_Witness ==
    /\ res.op = "from_sequence"
    /\ res.size = 2
    /\ Len(res.sequence) = 4
    /\ \E v \in 0..3 : Occurrences(res.sequence, v) = 2
    /\ \A i \in 1..4 : res.sequence[i] \in 0..3
    /\ res.value = ValueError

\* C5 (as claimed): solved(size) raises for every size < 1, and for size >= 1
\* returns the state with tiles 1, 2, ..., size*size-1, 0.
C5_SolvedRejectsSizeBelowOne ==
    res.op = "solved" =>
        /\ res.size < 1 => res.value = ValueError
        /\ res.size >= 1 =>
              /\ IsState(res.value)
              /\ res.value.size = res.size
              /\ Len(res.value.tiles) = res.size * res.size
              /\ res.value.tiles[res.size * res.size] = 0
              /\ \A i \in 1..(res.size * res.size - 1) : res.value.tiles[i] = i

-----------------------------------------------------------------------------
(* The state API in use: a caller holds a state, asks for move_tile and    *)
(* legal_moves, takes over a state move_tile returned (gui.py,             *)
(* on_tile_click), and calls shuffle.  Calls run one at a time.            *)

\* Grids small enough to start from every one of their states.
SmallSizes == {1, 2}

\* Every state of size n: the sequences from_sequence accepts.
StatesOfSize(n) ==
    {FromSequence(n, p) : p \in {q \in [1..(n * n) -> 0..(n * n - 1)] :
                                     ~PostInitRaises(n, q)}}

\* The 3x3 states a caller starts from: solved(3), the state
\* [1,2,3,4,0,6,7,5,8], and solved(3) with tiles 1 and 2 exchanged.
Starts3 ==
    {Solved(3),
     FromSequence(3, <<1, 2, 3, 4, 0, 6, 7, 5, 8>>),
     FromSequence(3, <<2, 1, 3, 4, 5, 6, 7, 8, 0>>)}

BoardStarts == UNION {StatesOfSize(n) : n \in SmallSizes} \cup Starts3

CallMoveTile(tile) ==
    /\ sh_pc = "idle"
    /\ res' = [op |-> "move_tile", self |-> state, tile |-> tile,
               value |-> MoveTile(state, tile)]
    /\ UNCHANGED <<buf, boardVars, shuffleVars, solveVars, guiVars>>

CallLegalMoves ==
    /\ sh_pc = "idle"
    /\ res' = [op |-> "legal_moves", self |-> state, value |-> LegalMoves(state)]
    /\ UNCHANGED <<buf, boardVars, shuffleVars, solveVars, guiVars>>

CallManhattanDistance ==
    /\ sh_pc = "idle"
    /\ res' = [op |-> "manhattan_distance", self |-> state,
               value |-> ManhattanDistance(state)]
    /\ UNCHANGED <<buf, boardVars, shuffleVars, solveVars, guiVars>>

CallIsSolved ==
    /\ sh_pc = "idle"
    /\ res' = [op |-> "is_solved", self |-> state, value |-> IsSolved(state)]
    /\ UNCHANGED <<buf, boardVars, shuffleVars, solveVars, guiVars>>

\* state.swap(idx_a, idx_b) for two cell indexes of the grid.
CallSwap(idx_a, idx_b) ==
    /\ sh_pc = "idle"
    /\ res' = [op |-> "swap", self |-> state, idx_a |-> idx_a, idx_b |-> idx_b,
               value |-> Swap(state, idx_a, idx_b)]
    /\ UNCHANGED <<buf, boardVars, shuffleVars, solveVars, guiVars>>

\* on_tile_click: a state returned by move_tile replaces the one held.
TakeMove ==
    /\ res.op = "move_tile"
    /\ res.value # None
    /\ nmoves < MaxMoves
    /\ state' = res.value
    /\ nmoves' = nmoves + 1
    /\ res' = NoCall
    /\ UNCHANGED <<buf, shuffleVars, solveVars, guiVars>>

\* shuffle's candidate list with the last_tile filter left out.
ShuffleOptionsUnfiltered(s, last) == LegalMoves(s)

\* shuffle's candidate list for one step: the legal moves, without the one
\* moving last_tile unless that leaves nothing.
ShuffleOptions(s, last) ==
    LET options == LegalMoves(s)
        filtered == SelectSeq(options, LAMBDA item : item[1] # last)
    IN  IF last # NoTile
        THEN IF filtered = <<>> THEN LegalMoves(s) ELSE filtered
        ELSE options

\* state.shuffle(moves): rng defaulted, state = self, last_tile = None.
CallShuffle(moves) ==
    /\ sh_pc = "idle"
    /\ sh_pc' = "loop"
    /\ sh_state' = state
    /\ last_tile' = NoTile
    /\ sh_left' = moves
    /\ sh_path' = <<>>
    /\ res' = [op |-> "shuffle", self |-> state, moves |-> moves]
    /\ UNCHANGED <<buf, boardVars, solveVars, guiVars>>

\* One iteration of shuffle's loop; rng.choice picks any candidate, and
\* raises IndexError when there is none.
ShuffleStep ==
    /\ sh_pc = "loop"
    /\ sh_left > 0
    /\ LET options == ShuffleOptions(sh_state, last_tile)
       IN  IF options = <<>>
           THEN /\ sh_pc' = "IndexError"
                /\ UNCHANGED <<sh_state, last_tile, sh_left, sh_path>>
           ELSE \E i \in 1..Len(options) :
                    /\ sh_state' = options[i][2]
                    /\ last_tile' = options[i][1]
                    /\ sh_left' = sh_left - 1
                    /\ sh_path' = Append(sh_path, options[i][1])
                    /\ sh_pc' = "loop"
    /\ UNCHANGED <<ctorVars, boardVars, solveVars, guiVars>>

\* The loop has run `moves` times: return state.
ShuffleReturn ==
    /\ sh_pc = "loop"
    /\ sh_left = 0
    /\ sh_pc' = "returned"
    /\ UNCHANGED <<sh_state, last_tile, sh_left, sh_path>>
    /\ UNCHANGED <<ctorVars, boardVars, solveVars, guiVars>>

\* The caller is done with the shuffle call's outcome.
ShuffleForget ==
    /\ sh_pc \in {"returned", "IndexError"}
    /\ sh_pc' = "idle"
    /\ sh_state' = None
    /\ last_tile' = NoTile
    /\ sh_left' = 0
    /\ sh_path' = <<>>
    /\ res' = NoCall
    /\ UNCHANGED <<buf, boardVars, solveVars, guiVars>>

InitBoard ==
    /\ CtorIdle
    /\ state \in BoardStarts
    /\ nmoves = 0
    /\ ShuffleIdle
    /\ SolveIdle
    /\ GuiIdle

NextBoard ==
    \/ \E tile \in Elements(state.tiles) : CallMoveTile(tile)
    \/ CallLegalMoves
    \/ CallManhattanDistance
    \/ CallIsSolved
    \/ \E idx_a, idx_b \in 0..(Len(state.tiles) - 1) : CallSwap(idx_a, idx_b)
    \/ TakeMove
    \/ \E moves \in 0..MaxShuffle : CallShuffle(moves)
    \/ ShuffleStep
    \/ ShuffleReturn
    \/ ShuffleForget

SpecBoard == InitBoard /\ [][NextBoard]_vars

-----------------------------------------------------------------------------
(* Claims about moves and shuffle (checked under SpecBoard). *)

\* The cell index holding value v in state s.
CellOf(s, v) == CHOOSE i \in 0..(Len(s.tiles) - 1) : s.tiles[i + 1] = v

RowOf(s, i) == i \div s.size

ColOf(s, i) == i % s.size

\* Cells i and j of s are orthogonal neighbours on the grid.
Adjacent(s, i, j) ==
    \/ RowOf(s, i) = RowOf(s, j) /\ Abs(ColOf(s, i) - ColOf(s, j)) = 1
    \/ ColOf(s, i) = ColOf(s, j) /\ Abs(RowOf(s, i) - RowOf(s, j)) = 1

\* t is s with the contents of cells i and j exchanged and nothing else changed.
Exchanged(s, t, i, j) ==
    /\ IsState(t)
    /\ t.size = s.size
    /\ Len(t.tiles) = Len(s.tiles)
    /\ t.tiles[i + 1] = s.tiles[j + 1]
    /\ t.tiles[j + 1] = s.tiles[i + 1]
    /\ \A k \in 0..(Len(s.tiles) - 1) : k \notin {i, j} => t.tiles[k + 1] = s.tiles[k + 1]

\* C6: move_tile(tile) returns None when the tile's cell is not an orthogonal
\* neighbour of the blank's cell (tile 0 and cells next to each other only in
\* row-major order included); otherwise it returns the state with blank and
\* tile exchanged and every other cell unchanged.  The state it was called on
\* is unchanged either way.
C6_MoveTileContract ==
    res.op = "move_tile" =>
        LET s == res.self
            b == CellOf(s, 0)
            c == CellOf(s, res.tile)
        IN  /\ ~Adjacent(s, b, c) => res.value = None
            /\ Adjacent(s, b, c) => Exchanged(s, res.value, b, c)
            /\ state = s

\* C6 witness: move_tile returned None for a tile whose cell follows or
\* precedes the blank's in row-major order but lies on another row.
C6_Witness ==
    /\ res.op = "move_tile"
    /\ Abs(CellOf(res.self, 0) - CellOf(res.self, res.tile)) = 1
    /\ RowOf(res.self, CellOf(res.self, 0)) # RowOf(res.self, CellOf(res.self, res.tile))
    /\ res.value = None
    /\ state = res.self

\* The cells next to the blank of s in the order up, down, left, right, with
\* -1 for a direction that leaves the grid.
NeighbourCells(s) ==
    LET b == CellOf(s, 0)
    IN  << IF RowOf(s, b) > 0 THEN b - s.size ELSE -1,
           IF RowOf(s, b) < s.size - 1 THEN b + s.size ELSE -1,
           IF ColOf(s, b) > 0 THEN b - 1 ELSE -1,
           IF ColOf(s, b) < s.size - 1 THEN b + 1 ELSE -1 >>

OnGridNeighbours(s) == SelectSeq(NeighbourCells(s), LAMBDA i : i >= 0)

\* moves is one (tile, state) pair per on-grid neighbour of the blank of s, in
\* the order up, down, left, right, each state being move_tile(tile) of s.
IsLegalMoveList(s, moves) ==
    /\ Len(moves) = Len(OnGridNeighbours(s))
    /\ \A k \in 1..Len(moves) :
          /\ moves[k][1] = s.tiles[OnGridNeighbours(s)[k] + 1]
          /\ moves[k][2] = MoveTile(s, moves[k][1])
          /\ moves[k][2] # None

\* C7 (as claimed): legal_moves() from any state yields 2 to 4 entries, one
\* per on-grid neighbour of the blank in the order up, down, left, right, each
\* the neighbour's tile with move_tile(tile) of the state.
C7_LegalMovesAnyState ==
    res.op = "legal_moves" =>
        /\ Len(res.value) \in 2..4
        /\ IsLegalMoveList(res.self, res.value)

\* C7 (amended): legal_moves() from any state of size >= 2 yields 2 to 4
\* entries, one per on-grid neighbour of the blank in the order up, down,
\* left, right, each the neighbour's tile with move_tile(tile) of the state;
\* from the 1x1 state it yields no entry.
C7_LegalMovesFromSizeTwo ==
    res.op = "legal_moves" =>
        /\ res.self.size >= 2 => Len(res.value) \in 2..4
        /\ res.self.size = 1 => res.value = <<>>
        /\ IsLegalMoveList(res.self, res.value)

\* C7 witness: legal_moves was called with the blank in the first column of a
\* lower row of a 3x3 grid, so left is off the grid and up is on it.
C7_Witness ==
    /\ res.op = "legal_moves"
    /\ res.self.size = 3
    /\ ColOf(res.self, CellOf(res.self, 0)) = 0
    /\ RowOf(res.self, CellOf(res.self, 0)) > 0
    /\ Len(res.value) \in 2..3

\* The state reached from s by moving the tiles of path in order with
\* move_tile, or None as soon as one of them cannot be moved.
RECURSIVE ApplyMoves(_, _)
ApplyMoves(s, path) ==
    IF path = <<>>
    THEN s
    ELSE LET next == MoveTile(s, Head(path))
         IN  IF next = None THEN None ELSE ApplyMoves(next, Tail(path))

\* The states one legal move away from s.
Neighbours(s) == {MoveTile(s, tile) : tile \in Elements(s.tiles)} \ {None}

\* The states reachable from a state of S in at most k moves.
RECURSIVE ReachWithin(_, _)
ReachWithin(S, k) ==
    IF k = 0
    THEN S
    ELSE LET more == S \cup UNION {Neighbours(s) : s \in S}
         IN  IF more = S THEN S ELSE ReachWithin(more, k - 1)

\* What C8 says of a shuffle call that has returned: a path of exactly
\* `moves` legal moves leads from the state shuffled to the state returned,
\* which is a permutation and, when the state shuffled is solved, lies within
\* `moves` moves of the solved state.
ShuffleResultIsWalk ==
    sh_pc = "returned" =>
        /\ Len(sh_path) = res.moves
        /\ ApplyMoves(res.self, sh_path) = sh_state
        /\ IsState(sh_state)
        /\ sh_state.size = res.self.size
        /\ IsPermutation(sh_state.tiles, sh_state.size * sh_state.size)
        /\ IsSolved(res.self) =>
              sh_state \in ReachWithin({Solved(res.self.size)}, res.moves)

\* C8 (as claimed): for every state and every k >= 0, shuffle(k) returns,
\* whatever the random choices, the end of a path of exactly k legal moves
\* from the state.
C8_ShuffleAnyState ==
    /\ sh_pc # "IndexError"
    /\ ShuffleResultIsWalk

\* C8 (amended): for every state of size >= 2 and every k >= 0, and for the
\* 1x1 state with k = 0, shuffle(k) returns, whatever the random choices, the
\* end of a path of exactly k legal moves from the state (a valid permutation,
\* within k moves of solved when the state is solved); for the 1x1 state and
\* k >= 1 it raises IndexError.
C8_ShuffleFromSizeTwo ==
    /\ sh_pc = "IndexError" => res.self.size = 1 /\ res.moves >= 1
    /\ sh_pc = "returned" /\ res.self.size = 1 => res.moves = 0
    /\ ShuffleResultIsWalk

\* C8 witness: shuffle(3) of the solved 3x3 state has returned.
C8_Witness ==
    /\ sh_pc = "returned"
    /\ res.self = Solved(3)
    /\ res.moves = 3
    /\ Len(sh_path) = 3
    /\ sh_state # res.self

\* C9: no two consecutive steps of shuffle move the same tile, and on a grid
\* of size >= 2 a step that has a last tile to exclude still has a candidate
\* left after excluding it.
C9_ShuffleNeverUndoes ==
    /\ \A i \in 1..(Len(sh_path) - 1) : sh_path[i] # sh_path[i + 1]
    /\ (sh_pc = "loop" /\ last_tile # NoTile /\ sh_state.size >= 2) =>
           \E tile \in Elements(sh_state.tiles) :
               tile # last_tile /\ MoveTile(sh_state, tile) # None

\* C9 witness: a shuffle of a 2x2 state, where every step after the first has
\* exactly one candidate left, has made three steps.
C9_Witness ==
    /\ sh_pc = "returned"
    /\ res.self.size = 2
    /\ Len(sh_path) = 3
    /\ last_tile = sh_path[3]

-----------------------------------------------------------------------------
(* solve_puzzle and reconstruct_path *)

\* A list back to front.
Reverse(seq) == [i \in 1..Len(seq) |-> seq[Len(seq) + 1 - i]]

\* reconstruct_path's loop following the links but appending, for each step,
\* the tile recorded for the predecessor instead of the state's own.
RECURSIVE WalkBackParentTile(_, _)
WalkBackParentTile(cf, current) ==
    IF current \in DOMAIN cf
    THEN (IF cf[current][1] \in DOMAIN cf
          THEN <<cf[cf[current][1]][2]>>
          ELSE <<cf[current][2]>>)
             \o WalkBackParentTile(cf, cf[current][1])
    ELSE <<>>

\* reconstruct_path's loop: the tiles appended while walking the predecessor
\* links from current, so the last move comes first.
RECURSIVE WalkBack(_, _)
WalkBack(cf, current) ==
    IF current \in DOMAIN cf
    THEN <<cf[current][2]>> \o WalkBack(cf, cf[current][1])
    ELSE <<>>

\* reconstruct_path without moves.reverse().
ReconstructPathUnreversed(cf, goal) == WalkBack(cf, goal)

\* reconstruct_path: walk back from goal, then reverse.
ReconstructPath(cf, goal) == Reverse(WalkBack(cf, goal))

\* The priority with the path cost left out (best-first on h alone).
PriorityGreedy(g, h) == h

\* The priority of a pushed entry: tentative + neighbor.manhattan_distance().
Priority(g, h) == g + h

\* The test of line 138 passing only for a neighbour not recorded yet.
ImprovesOnlyIfNew(tentative, g, neighbor) == neighbor \notin DOMAIN g

\* tentative < g_score.get(neighbor, float("inf")).
Improves(tentative, g, neighbor) ==
    neighbor \notin DOMAIN g \/ tentative < g[neighbor]

\* g_score started from whatever an earlier call left in it.
InitialGScoreKept(s) == (s :> 0) @@ g_score

\* g_score: Dict = {start: 0}, a dictionary of this call alone.
InitialGScore(s) == (s :> 0)

\* Heap order with equal priorities resolved towards the entry pushed last.
EntryBeforeLatestFirst(a, b) == a[1] < b[1] \/ (a[1] = b[1] /\ a[2] >= b[2])

\* Heap order on entries (priority, counter, state): by priority, then by
\* counter; counters differ, so states are never compared.
EntryBefore(a, b) == a[1] < b[1] \/ (a[1] = b[1] /\ a[2] <= b[2])

\* heappop: the least entry.
HeapMin(fr) == CHOOSE e \in fr : \A o \in fr : EntryBefore(e, o)

\* The for loop over current.legal_moves(): each neighbour that improves is
\* recorded and pushed.  loc holds frontier, came_from, g_score and counter.
\* (The rest of the list and the locals go to the next round through
\* singleton sets, which hands them on as values computed once.)
RECURSIVE Relax(_, _, _, _)
Relax(moves, current, current_cost, loc) ==
    IF moves = <<>>
    THEN loc
    ELSE LET tile == Head(moves)[1]
             neighbor == Head(moves)[2]
             tentative == current_cost + 1
             priority == Priority(tentative, ManhattanDistance(neighbor))
             next == IF Improves(tentative, loc.g_score, neighbor)
                     THEN [came_from |-> (neighbor :> <<current, tile>>) @@ loc.came_from,
                           g_score |-> (neighbor :> tentative) @@ loc.g_score,
                           counter |-> loc.counter + 1,
                           frontier |-> loc.frontier
                                          \cup {<<priority, loc.counter + 1, neighbor>>}]
                     ELSE loc
         IN  CHOOSE r \in {Relax(rest, current, current_cost, l) :
                               rest \in {Tail(moves)}, l \in {next}} : TRUE

\* solve_puzzle(start) without the early return of lines 120-121.
SolveCallNoEarlyReturn ==
    /\ pc = "idle"
    /\ Len(hist) < MaxCalls
    /\ pops' = <<>>
    /\ pc' = "loop"
    /\ frontier' = {<<ManhattanDistance(start), 0, start>>}
    /\ counter' = 0
    /\ came_from' = EmptyMap
    /\ g_score' = InitialGScore(start)
    /\ result' = None
    /\ UNCHANGED <<start, hist, ctorVars, boardVars, shuffleVars, guiVars>>

\* solve_puzzle(start) up to its loop: the early return for a solved start,
\* else the locals as lines 123-128 set them.
SolveCall ==
    /\ pc = "idle"
    /\ Len(hist) < MaxCalls
    /\ pops' = <<>>
    /\ IF IsSolved(start)
       THEN /\ pc' = "done"
            /\ result' = Returned(<<>>)
            /\ UNCHANGED <<frontier, counter, came_from, g_score>>
       ELSE /\ pc' = "loop"
            /\ frontier' = {<<ManhattanDistance(start), 0, start>>}
            /\ counter' = 0
            /\ came_from' = EmptyMap
            /\ g_score' = InitialGScore(start)
            /\ result' = None
    /\ UNCHANGED <<start, hist, ctorVars, boardVars, shuffleVars, guiVars>>

\* One iteration of `while frontier`: pop, return the path at the goal, else
\* relax the neighbours.
SolveIterate ==
    /\ pc = "loop"
    /\ frontier # {}
    /\ \E entry \in {HeapMin(frontier)} :
         LET current == entry[3]
             goal == Solved(start.size)
         IN  /\ pops' = Append(pops, current)
             /\ IF current = goal
                THEN /\ pc' = "done"
                     /\ result' = Returned(ReconstructPath(came_from, current))
                     /\ frontier' = frontier \ {entry}
                     /\ UNCHANGED <<counter, came_from, g_score>>
                ELSE \E loc \in {Relax(moves, current, g_score[current],
                                       [frontier |-> frontier \ {entry},
                                        came_from |-> came_from,
                                        g_score |-> g_score,
                                        counter |-> counter]) :
                                     moves \in {LegalMoves(current)}} :
                         /\ frontier' = loc.frontier
                         /\ came_from' = loc.came_from
                         /\ g_score' = loc.g_score
                         /\ counter' = loc.counter
                         /\ UNCHANGED <<pc, result>>
    /\ UNCHANGED <<start, hist, ctorVars, boardVars, shuffleVars, guiVars>>

\* The end of the function reached without a raise: an empty list returned.
SolveFallsThrough ==
    /\ pc = "loop"
    /\ frontier = {}
    /\ pc' = "done"
    /\ result' = Returned(<<>>)
    /\ UNCHANGED <<start, frontier, counter, came_from, g_score, pops, hist>>
    /\ UNCHANGED <<ctorVars, boardVars, shuffleVars, guiVars>>

\* The frontier is empty: raise ValueError("Puzzle is unsolvable ...").
SolveRaise ==
    /\ pc = "loop"
    /\ frontier = {}
    /\ pc' = "failed"
    /\ result' = ValueError
    /\ UNCHANGED <<start, frontier, counter, came_from, g_score, pops, hist>>
    /\ UNCHANGED <<ctorVars, boardVars, shuffleVars, guiVars>>

\* The call is over: the caller has its outcome, and the locals are garbage
\* until the next call sets them anew.
SolveReturn ==
    /\ pc \in {"done", "failed"}
    /\ hist' = Append(hist, [start |-> start, result |-> result, pops |-> pops])
    /\ pc' = "idle"
    /\ UNCHANGED <<start, frontier, counter, came_from, g_score, result, pops>>
    /\ UNCHANGED <<ctorVars, boardVars, shuffleVars, guiVars>>

\* The states reachable from a state of S by legal moves.
RECURSIVE Closure(_)
Closure(S) ==
    LET more == S \cup UNION {Neighbours(s) : s \in S}
    IN  IF more = S THEN S ELSE Closure(more)

\* Three 3x3 states further from solved(3), each given by the moves that lead
\* to it from solved(3) (8, 9 and 12 of them, as a shuffle could make them):
\* [1,5,2,8,0,3,4,7,6], [1,2,3,5,8,0,4,6,7] and [1,2,3,8,7,6,0,5,4].  The
\* search from the last one records a state twice, the second time with a
\* lower cost, and pops both of its entries.
DeepStarts ==
    {ApplyMoves(Solved(3), <<6, 3, 2, 5, 8, 7, 4, 8>>),
     ApplyMoves(Solved(3), <<8, 7, 4, 5, 6, 8, 7, 6, 8>>),
     ApplyMoves(Solved(3), <<6, 5, 4, 7, 8, 4, 5, 6, 4, 5, 7, 8>>)}

\* The start states of the solver: every state of the small grids, the 3x3
\* states within MaxDepth moves of solved(3), and the three deeper ones.
SolveStarts ==
    UNION {StatesOfSize(n) : n \in SmallSizes}
        \cup ReachWithin({Solved(3)}, MaxDepth)
        \cup DeepStarts

InitSolve ==
    /\ CtorIdle
    /\ BoardIdle
    /\ ShuffleIdle
    /\ start \in SolveStarts
    /\ pc = "idle"
    /\ frontier = {}
    /\ counter = 0
    /\ came_from = EmptyMap
    /\ g_score = EmptyMap
    /\ result = None
    /\ pops = <<>>
    /\ hist = <<>>
    /\ GuiIdle

NextSolve ==
    \/ SolveCall
    \/ SolveIterate
    \/ SolveRaise
    \/ SolveReturn

SpecSolve == InitSolve /\ [][NextSolve]_vars

\* The call runs to completion: the loop keeps iterating while the frontier
\* holds an entry, and the raise follows an empty frontier.
SpecSolveFair ==
    SpecSolve /\ WF_vars(SolveCall) /\ WF_vars(SolveIterate) /\ WF_vars(SolveRaise)

-----------------------------------------------------------------------------
(* Claims about solve_puzzle (checked under SpecSolve and SpecSolveFair). *)

\* The states the solved state can be reached from, among the start states:
\* a move is undone by moving the same tile again, so they are the states
\* reachable from the solved state.  The small grids are searched whole; the
\* 3x3 starts are all reached from solved(3) by moves.
SolvableStates ==
    UNION {Closure({Solved(n)}) : n \in SmallSizes}
        \cup ReachWithin({Solved(3)}, MaxDepth)
        \cup DeepStarts

Solvable(s) == s \in SolvableStates

\* The least number of legal moves from a state of S to the solved state of
\* size n, plus k: breadth-first search by levels.
RECURSIVE LevelsToSolved(_, _, _)
LevelsToSolved(S, n, k) ==
    IF Solved(n) \in S
    THEN k
    ELSE LevelsToSolved(S \cup UNION {Neighbours(s) : s \in S}, n, k + 1)

\* The breadth-first distance from a solvable state s to the solved state.
TrueDistance(s) == LevelsToSolved({s}, s.size, 0)

\* C1: for a solvable start, solve_puzzle returns a list of tiles; moving them
\* in order with move_tile never gives None and ends in a solved state.
C1_SolutionSolves ==
    /\ (pc = "failed" \/ result = ValueError) => ~Solvable(start)
    /\ pc = "done" =>
          /\ result.tag = "list"
          /\ ApplyMoves(start, result.moves) # None
          /\ IsSolved(ApplyMoves(start, result.moves))

\* C1 witness: the search returned a path of four moves for a 3x3 start.
C1_Witness ==
    /\ pc = "done"
    /\ start.size = 3
    /\ Len(result.moves) = 4
    /\ IsSolved(ApplyMoves(start, result.moves))

\* C2: the list solve_puzzle returns for a solvable start is as long as the
\* breadth-first distance from start to the solved state.
C2_SolutionIsShortest ==
    pc = "done" => Len(result.moves) = TrueDistance(start)

\* C2 witness: for the 3x3 state [1,2,3,4,0,6,7,5,8] the search returned two
\* moves, tiles 5 and 8.
C2_Witness ==
    /\ pc = "done"
    /\ start = FromSequence(3, <<1, 2, 3, 4, 0, 6, 7, 5, 8>>)
    /\ result = Returned(<<5, 8>>)

\* C3: from a start the solved state cannot be reached from, solve_puzzle
\* ends: the loop is left, with the frontier empty and the error raised, and
\* no list is returned.
C3_UnsolvableTerminates ==
    /\ [](~Solvable(start) /\ pc \in {"done", "failed"} =>
             pc = "failed" /\ frontier = {} /\ result = ValueError)
    /\ [](~Solvable(start) /\ pc = "loop" => result = None)
    /\ (~Solvable(start) /\ pc = "loop") ~> (pc = "failed")

\* C3 witness: the call on the solved 2x2 layout with tiles 1 and 2 exchanged
\* has raised, after popping every state reachable from it.
C3_Witness ==
    /\ pc = "failed"
    /\ start = FromSequence(2, <<2, 1, 3, 0>>)
    /\ frontier = {}
    /\ result = ValueError
    /\ Elements(pops) = Closure({start})

\* p is q or a beginning of q.
IsPrefix(p, q) == Len(p) <= Len(q) /\ \A i \in 1..Len(p) : p[i] = q[i]

\* C10: calls of solve_puzzle on equal start states pop the same states in
\* the same order and end alike (equal lists, or both raise), whatever an
\* earlier call left behind; the start state is as it was before the call.
C10_SolveIsAFunctionOfStart ==
    /\ \A i, j \in 1..Len(hist) :
           hist[i].start = hist[j].start =>
               hist[i].result = hist[j].result /\ hist[i].pops = hist[j].pops
    /\ \A i \in 1..Len(hist) :
           /\ hist[i].start = start
           /\ pc # "idle" => IsPrefix(pops, hist[i].pops)
           /\ pc \in {"done", "failed"} =>
                  result = hist[i].result /\ pops = hist[i].pops

\* C10 witness: a second call on a 3x3 start has ended after a search of at
\* least three pops, with the first call's outcome.
C10_Witness ==
    /\ Len(hist) = 1
    /\ pc = "done"
    /\ start.size = 3
    /\ Len(pops) >= 3
    /\ result = hist[1].result
    /\ result.tag = "list"
    /\ Len(result.moves) >= 2

-----------------------------------------------------------------------------
(* Claims about the heuristic, is_solved and swap (checked under SpecBoard). *)

\* The grid distance between the cell holding tile v in s and the cell tile v
\* holds in the solved state, cell v - 1.
TileDistance(s, v) ==
    Abs(RowOf(s, CellOf(s, v)) - ((v - 1) \div s.size))
        + Abs(ColOf(s, CellOf(s, v)) - ((v - 1) % s.size))

\* The sum of TileDistance over the tiles 1..v.
RECURSIVE SumTileDistances(_, _)
SumTileDistances(s, v) ==
    IF v <= 0 THEN 0 ELSE TileDistance(s, v) + SumTileDistances(s, v - 1)

\* The tiles of s are 1, 2, ..., size*size-1 in row-major order, then 0.
InOrder(s) ==
    \A i \in 1..Len(s.tiles) : s.tiles[i] = IF i = Len(s.tiles) THEN 0 ELSE i

\* C11: manhattan_distance is consistent: for every pair (tile, s') that
\* legal_moves yields from a state s, the distances of s' and of s differ by
\* exactly 1.
C11_ManhattanConsistent ==
    res.op = "legal_moves" =>
        \A k \in 1..Len(res.value) :
            Abs(ManhattanDistance(res.value[k][2]) - ManhattanDistance(res.self)) = 1

\* C11 witness: legal_moves was called on a 3x3 state with the blank in the
\* middle, and one of the four moves lowers the distance while another
\* raises it.
C11_Witness ==
    /\ res.op = "legal_moves"
    /\ res.self.size = 3
    /\ Len(res.value) = 4
    /\ \E j, k \in 1..4 :
           /\ ManhattanDistance(res.value[j][2]) = ManhattanDistance(res.self) - 1
           /\ ManhattanDistance(res.value[k][2]) = ManhattanDistance(res.self) + 1

\* C12: manhattan_distance is admissible: it returns the sum, over the
\* non-blank tiles, of the grid distance between the tile's cell and its cell
\* in the solved state, and for a state the solved state can be reached from
\* that is at most the least number of moves that solves it.
C12_ManhattanAdmissible ==
    res.op = "manhattan_distance" =>
        /\ res.value = SumTileDistances(res.self, Len(res.self.tiles) - 1)
        /\ Solvable(res.self) => res.value <= TrueDistance(res.self)

\* C12 witness: manhattan_distance was called on a solvable 3x3 state three
\* or more moves from solved and returned a positive number.
C12_Witness ==
    /\ res.op = "manhattan_distance"
    /\ res.self.size = 3
    /\ Solvable(res.self)
    /\ TrueDistance(res.self) >= 3
    /\ res.value >= 1

\* C13: the state solved(size) gives is_solved() true and manhattan_distance()
\* 0; is_solved() is true only for the state whose tiles are 1..size*size-1
\* in order followed by 0, and manhattan_distance() is 0 only for that state.
C13_SolvedIsTheOnlyZero ==
    /\ res.op = "is_solved" =>
          /\ res.value \in BOOLEAN
          /\ res.value <=> InOrder(res.self)
          /\ res.self = Solved(res.self.size) => res.value
    /\ res.op = "manhattan_distance" =>
          /\ (res.value = 0) <=> InOrder(res.self)
          /\ res.self = Solved(res.self.size) => res.value = 0

\* C13 witness: is_solved was called on solved(3) and returned true.
C13_Witness ==
    /\ res.op = "is_solved"
    /\ res.self = Solved(3)
    /\ res.value = TRUE

\* C14: moves are involutions: swapping the same two cells of the state that
\* swap(a, b) returned gives back the state swapped, and for every pair
\* (tile, s') that legal_moves yields from a state, move_tile(tile) of s' is
\* legal and returns that state.
C14_MovesAreInvolutions ==
    /\ res.op = "swap" =>
          /\ IsState(res.value)
          /\ Swap(res.value, res.idx_a, res.idx_b) = res.self
    /\ res.op = "legal_moves" =>
          \A k \in 1..Len(res.value) :
              /\ IsState(res.value[k][2])
              /\ MoveTile(res.value[k][2], res.value[k][1]) # None
              /\ MoveTile(res.value[k][2], res.value[k][1]) = res.self

\* C14 witness: swap was called on a 3x3 state for two different cells that
\* are not next to each other, and returned another state.
C14_Witness ==
    /\ res.op = "swap"
    /\ res.self.size = 3
    /\ res.idx_a # res.idx_b
    /\ ~Adjacent(res.self, res.idx_a, res.idx_b)
    /\ IsState(res.value)
    /\ res.value # res.self

-----------------------------------------------------------------------------
(* Claims about the search's bookkeeping (checked under SpecSolve). *)

\* C15: on a start that is solved, solve_puzzle returns the empty list at
\* once: nothing is ever pushed on the frontier, popped or recorded; for a
\* solvable start that is not solved the call returns a non-empty list.
C15_SolvedStartReturnsEmpty ==
    /\ InOrder(start) =>
          /\ pc \in {"idle", "done"}
          /\ pc = "done" => result = Returned(<<>>)
          /\ frontier = {}
          /\ counter = 0
          /\ came_from = EmptyMap
          /\ g_score = EmptyMap
          /\ pops = <<>>
    /\ (Solvable(start) /\ ~InOrder(start) /\ pc \in {"done", "failed"}) =>
          /\ pc = "done"
          /\ result.tag = "list"
          /\ Len(result.moves) >= 1

\* C15 witness: the call on solved(3) has returned the empty list with the
\* frontier never touched.
C15_Witness ==
    /\ pc = "done"
    /\ start = Solved(3)
    /\ result = Returned(<<>>)
    /\ frontier = {}
    /\ pops = <<>>

\* C16: the frontier is popped in ascending f = g + h with ties broken by
\* insertion order.  The start entry has counter 0; every entry pushed later
\* has priority g + h of its state and a counter greater than every counter
\* pushed before; so no two entries of the frontier share a counter (and
\* states are never compared); and the entry a pop removes has the least
\* priority of the frontier and, among the entries of that priority, the
\* least counter.
C16_FrontierOrder ==
    /\ [](pc = "loop" =>
             /\ \A e \in frontier : e[2] \in 0..counter
             /\ \A e1, e2 \in frontier : e1 # e2 => e1[2] # e2[2])
    /\ [][(pc = "idle" /\ pc' = "loop") =>
             frontier' = {<<ManhattanDistance(start), 0, start>>}]_vars
    /\ [][(pc = "loop" /\ pops' # pops) =>
             LET popped == frontier \ frontier'
                 pushed == frontier' \ frontier
             IN  /\ Cardinality(popped) = 1
                 /\ \A e \in popped :
                        /\ e[3] = pops'[Len(pops')]
                        /\ \A o \in frontier :
                               e[1] < o[1] \/ (e[1] = o[1] /\ e[2] <= o[2])
                 /\ \A e \in pushed :
                        /\ e[2] > counter
                        /\ e[2] <= counter'
                        /\ e[1] = g_score'[e[3]] + ManhattanDistance(e[3])
                 /\ \A e1, e2 \in pushed : e1 # e2 => e1[2] # e2[2]]_vars

\* C16 witness: after two or more pops the frontier of a 3x3 search holds two
\* entries of the same priority, pushed one after the other.
C16_Witness ==
    /\ pc = "loop"
    /\ start.size = 3
    /\ Len(pops) >= 2
    /\ \E e1, e2 \in frontier : e1[1] = e2[1] /\ e1[2] < e2[2]

\* Breadth-first search from the states of `seen`, whose outermost level
\* `layer` lies k moves from the origin: every state of P met at level k has
\* g_score k, and every state of P is met.
RECURSIVE GIsDistance(_, _, _, _)
GIsDistance(seen, layer, k, P) ==
    IF P = {}
    THEN TRUE
    ELSE IF layer = {}
         THEN FALSE
         ELSE /\ \A s \in P \cap layer : s \in DOMAIN g_score /\ g_score[s] = k
              /\ LET next == (UNION {Neighbours(s) : s \in layer}) \ seen
                 IN  GIsDistance(seen \cup next, next, k + 1, P \ layer)

\* C17: whenever solve_puzzle pops a state (a stale second entry of a state
\* included), the g_score recorded for it is the length of a shortest path of
\* legal moves from start to it; so g_score and came_from of a state that has
\* been popped are never updated again, and the g_score of any state only
\* ever decreases.
C17_PoppedAtShortest ==
    /\ [](pc \in {"loop", "done", "failed"} =>
             GIsDistance({start}, {start}, 0, Elements(pops)))
    /\ [][pc = "loop" =>
             /\ \A s \in DOMAIN g_score :
                    s \in DOMAIN g_score' /\ g_score'[s] <= g_score[s]
             /\ \A s \in Elements(pops) :
                    /\ g_score'[s] = g_score[s]
                    /\ s \in DOMAIN came_from <=> s \in DOMAIN came_from'
                    /\ s \in DOMAIN came_from => came_from'[s] = came_from[s]]_vars

\* C17 witness: a search has popped a state a second time, through a stale
\* entry, and gone on.
C17_Witness ==
    /\ pc \in {"loop", "done"}
    /\ \E i, j \in 1..Len(pops) : i < j /\ pops[i] = pops[j]

\* C18: during the search start is never a key of came_from; for every key
\* s, with came_from[s] = (p, t), p.move_tile(t) is s and g_score[s] is
\* g_score[p] + 1, so the links form a tree rooted at start; and
\* reconstruct_path from any recorded state ends at start after exactly
\* g_score[state] steps and returns the tiles in start-to-state order: moving
\* them in order from start leads to the state.
C18_PredecessorTree ==
    pc \in {"loop", "failed"} \/ (pc = "done" /\ pops # <<>>) =>
        /\ start \notin DOMAIN came_from
        /\ start \in DOMAIN g_score /\ g_score[start] = 0
        /\ DOMAIN g_score = DOMAIN came_from \cup {start}
        /\ \A s \in DOMAIN came_from :
               LET p == came_from[s][1]
                   t == came_from[s][2]
               IN  /\ p \in DOMAIN g_score
                   /\ MoveTile(p, t) = s
                   /\ g_score[s] = g_score[p] + 1
        /\ \A s \in DOMAIN g_score :
               /\ Len(ReconstructPath(came_from, s)) = g_score[s]
               /\ ApplyMoves(start, ReconstructPath(came_from, s)) = s

\* C18 witness: a search from a 3x3 start has recorded a state three links
\* away from start, and reconstruct_path gives the three tiles that lead
\* to it.
C18_Witness ==
    /\ pc = "loop"
    /\ start.size = 3
    /\ \E s \in DOMAIN came_from :
           /\ g_score[s] = 3
           /\ Len(ReconstructPath(came_from, s)) = 3
           /\ ApplyMoves(start, ReconstructPath(came_from, s)) = s

-----------------------------------------------------------------------------
(* The GUI (gui.py): SlidePuzzleApp's handlers run one at a time on the    *)
(* main thread; solve() starts a thread that runs solve_puzzle and hands   *)
(* the outcome back through self.after; _animate_solution replays the      *)
(* moves, one timer callback per move.  The solver thread's steps          *)
(* interleave freely with the handlers.  The file dialog of load_image is  *)
(* modal: while it is open no button of the window can be pressed, but     *)
(* timer callbacks still run.                                              *)

\* Grid sizes the application is constructed with.
GridSizes == {1, 2, 3}

StatusShuffled == "Puzzle shuffled. Click tiles adjacent to the blank space."

StatusWin == "YOU WIN! You get no prize, sorry."

StatusScrambled == "I like my puzzles the way I like my eggs... scrambled."

StatusAlreadySolved == "Already solved, dude. Scramble it or something."

StatusSolving == "Fine, i'll solve it if you're that lazy."

StatusSolved == "Solved!"

StatusInvalidMove == "Solver encountered an invalid move."

\* The guard of on_tile_click, shuffle and solve ignoring self._solving.
BusyIgnoresSolving == state = None

\* `self.state is None or self._solving`: the handler returns at once.
Busy == state = None \/ solving

\* load_image: self.state.shuffle(moves=80).
LoadShuffleMoves == 80

\* shuffle: SlidePuzzleState.solved(self.grid_size).shuffle(moves=120).
ShuffleMoves == 120

\* The (state, last_tile) pairs shuffle's loop can hold one iteration after
\* holding one of `pairs`; none once rng.choice has raised.
WalkStep(pairs) ==
    UNION {{<<o[2], o[1]>> : o \in Elements(ShuffleOptions(p[1], p[2]))} :
               p \in pairs}

\* The same k iterations later: the first half of the iterations, then the
\* rest.
RECURSIVE WalkEnds(_, _)
WalkEnds(pairs, k) ==
    IF k = 0 \/ pairs = {}
    THEN pairs
    ELSE IF k = 1
         THEN WalkStep(pairs)
         ELSE WalkEnds(WalkEnds(pairs, k \div 2), k - (k \div 2))

\* SlidePuzzleState.solved(n).shuffle(moves) for an even `moves`: the states
\* it may hand back, none when it raises (the 1x1 grid).  On the small grids
\* these are the ends of shuffle's walks.  On the 3x3 grid a walk of 80 or
\* 120 moves can end in every state an even number of moves from solved(3),
\* which is where manhattan_distance is even; of those, the states within
\* GuiDepth moves of solved(3) are taken.
GuiShuffled(n, moves) ==
    IF n \in SmallSizes
    THEN {p[1] : p \in WalkEnds({<<Solved(n), NoTile>>}, moves)}
    ELSE {s \in ReachWithin({Solved(n)}, GuiDepth) : ManhattanDistance(s) % 2 = 0}

\* moves.pop() in place of moves.pop(0): the last tile first.
PopLast(moves) == <<moves[Len(moves)], SubSeq(moves, 1, Len(moves) - 1)>>

\* tile = moves.pop(0): the tile taken and the list left.
PopFirst(moves) == <<Head(moves), Tail(moves)>>

\* The Upload Image button is pressed: load_image up to its file dialog.
LoadImageOpen ==
    /\ ~dialog
    /\ ev' = "load_image"
    /\ dialog' = ~solving
    /\ UNCHANGED <<grid_size, solving, shuffle_btn, solve_btn, status, worker,
                   threads, timers>>
    /\ UNCHANGED <<ctorVars, boardVars, shuffleVars, solveVars>>

\* The file dialog closes: cancelled, a file slice_image fails on, or an
\* image.  With an image the state is solved(grid_size), then its shuffle;
\* when the shuffle raises, the handler ends there.
LoadImageChosen(outcome) ==
    /\ dialog
    /\ dialog' = FALSE
    /\ ev' = "load_image"
    /\ IF outcome # "image"
       THEN UNCHANGED <<boardVars, status, shuffle_btn, solve_btn>>
       ELSE IF GuiShuffled(grid_size, LoadShuffleMoves) = {}
            THEN /\ state' = Solved(grid_size)
                 /\ UNCHANGED <<nmoves, status, shuffle_btn, solve_btn>>
            ELSE /\ state' \in GuiShuffled(grid_size, LoadShuffleMoves)
                 /\ nmoves' = 0
                 /\ status' = StatusShuffled
                 /\ shuffle_btn' = TRUE
                 /\ solve_btn' = TRUE
    /\ UNCHANGED <<grid_size, solving, worker, threads, timers>>
    /\ UNCHANGED <<ctorVars, shuffleVars, solveVars>>

\* on_tile_click(index).
OnTileClick(index) ==
    /\ ~dialog
    /\ Busy \/ nmoves < MaxMoves
    /\ ev' = "on_tile_click"
    /\ IF Busy
       THEN UNCHANGED <<boardVars, status>>
       ELSE LET tile == state.tiles[index + 1]
                next_state == IF tile = 0 THEN None ELSE MoveTile(state, tile)
            IN  IF next_state = None
                THEN UNCHANGED <<boardVars, status>>
                ELSE /\ state' = next_state
                     /\ nmoves' = nmoves + 1
                     /\ status' = IF IsSolved(next_state) THEN StatusWin ELSE status
    /\ UNCHANGED <<grid_size, solving, shuffle_btn, solve_btn, dialog, worker,
                   threads, timers>>
    /\ UNCHANGED <<ctorVars, shuffleVars, solveVars>>

\* The Shuffle button is pressed: shuffle().
GuiShuffle ==
    /\ ~dialog
    /\ shuffle_btn
    /\ ev' = "shuffle"
    /\ IF Busy
       THEN UNCHANGED <<boardVars, status>>
       ELSE /\ state' \in GuiShuffled(grid_size, ShuffleMoves)
            /\ nmoves' = 0
            /\ status' = StatusScrambled
    /\ UNCHANGED <<grid_size, solving, shuffle_btn, solve_btn, dialog, worker,
                   threads, timers>>
    /\ UNCHANGED <<ctorVars, shuffleVars, solveVars>>

\* The Solve button is pressed: solve().
GuiSolve ==
    /\ ~dialog
    /\ solve_btn
    /\ ev' = "solve"
    /\ IF Busy
       THEN UNCHANGED <<solving, shuffle_btn, solve_btn, status, worker, threads>>
       ELSE IF IsSolved(state)
            THEN /\ status' = StatusAlreadySolved
                 /\ UNCHANGED <<solving, shuffle_btn, solve_btn, worker, threads>>
            ELSE /\ solving' = TRUE
                 /\ shuffle_btn' = FALSE
                 /\ solve_btn' = FALSE
                 /\ status' = StatusSolving
                 /\ worker' = "started"
                 /\ threads' = threads + 1
    /\ UNCHANGED <<grid_size, dialog, timers>>
    /\ UNCHANGED <<ctorVars, boardVars, shuffleVars, solveVars>>

\* _solve_thread, lines 140-142: the thread reads self.state and passes it
\* to solve_puzzle.
WorkerRead ==
    /\ worker = "started"
    /\ state # None
    /\ worker' = "running"
    /\ start' = state
    /\ UNCHANGED <<pc, frontier, counter, came_from, g_score, result, pops, hist>>
    /\ UNCHANGED <<grid_size, solving, shuffle_btn, solve_btn, status, dialog,
                   threads, timers, ev>>
    /\ UNCHANGED <<ctorVars, boardVars, shuffleVars>>

\* _solve_thread, line 142: solve_puzzle runs on the thread.
WorkerSolve ==
    /\ worker = "running"
    /\ \/ SolveCall
       \/ SolveIterate
       \/ SolveRaise

\* _solve_thread, lines 143-146: solve_puzzle is over; its outcome goes to
\* the main thread through self.after(0, ...) and the thread ends, its
\* locals with it.
WorkerPost ==
    /\ worker = "running"
    /\ pc \in {"done", "failed"}
    /\ timers' = timers \cup
                    {IF pc = "done"
                     THEN [callback |-> "_animate_solution", moves |-> result.moves]
                     ELSE [callback |-> "_on_solve_failed"]}
    /\ worker' = "none"
    /\ threads' = threads - 1
    /\ start' = None
    /\ pc' = "idle"
    /\ frontier' = {}
    /\ counter' = 0
    /\ came_from' = EmptyMap
    /\ g_score' = EmptyMap
    /\ result' = None
    /\ pops' = <<>>
    /\ UNCHANGED <<hist, grid_size, solving, shuffle_btn, solve_btn, status, dialog, ev>>
    /\ UNCHANGED <<ctorVars, boardVars, shuffleVars>>

\* A callback given to self.after runs.  _animate_solution(moves) ends the
\* replay on an empty list or an illegal move and otherwise makes one move
\* and schedules itself with the rest.  The lambda of line 144 refers to
\* `exc`, which Python unbinds when the except clause is left: running it
\* raises NameError before _on_solve_failed is entered, and Tk drops it.
RunTimer(cb) ==
    /\ cb \in timers
    /\ IF cb.callback = "_on_solve_failed"
       THEN /\ ev' = "NameError"
            /\ timers' = timers \ {cb}
            /\ UNCHANGED <<boardVars, solving, shuffle_btn, solve_btn, status>>
       ELSE /\ ev' = "_animate_solution"
            /\ IF state = None
               THEN /\ timers' = timers \ {cb}
                    /\ UNCHANGED <<boardVars, solving, shuffle_btn, solve_btn, status>>
               ELSE IF cb.moves = <<>>
                    THEN /\ status' = StatusSolved
                         /\ shuffle_btn' = TRUE
                         /\ solve_btn' = TRUE
                         /\ solving' = FALSE
                         /\ timers' = timers \ {cb}
                         /\ UNCHANGED boardVars
                    ELSE LET tile == PopFirst(cb.moves)[1]
                             rest == PopFirst(cb.moves)[2]
                             next_state == MoveTile(state, tile)
                         IN  IF next_state = None
                             THEN /\ status' = StatusInvalidMove
                                  /\ shuffle_btn' = TRUE
                                  /\ solve_btn' = TRUE
                                  /\ solving' = FALSE
                                  /\ timers' = timers \ {cb}
                                  /\ UNCHANGED boardVars
                             ELSE /\ state' = next_state
                                  /\ timers' = (timers \ {cb}) \cup
                                         {[callback |-> "_animate_solution",
                                           moves |-> rest]}
                                  /\ UNCHANGED <<nmoves, solving, shuffle_btn,
                                                 solve_btn, status>>
    /\ UNCHANGED <<grid_size, dialog, worker, threads>>
    /\ UNCHANGED <<ctorVars, shuffleVars, solveVars>>

InitGui ==
    /\ CtorIdle
    /\ BoardIdle
    /\ ShuffleIdle
    /\ SolveIdle
    /\ \E n \in GridSizes : AppConstructed(n)

NextGui ==
    \/ LoadImageOpen
    \/ \E outcome \in {"cancelled", "error", "image"} : LoadImageChosen(outcome)
    \/ \E index \in 0..(grid_size * grid_size - 1) : OnTileClick(index)
    \/ GuiShuffle
    \/ GuiSolve
    \/ WorkerRead
    \/ WorkerSolve
    \/ WorkerPost
    \/ \E cb \in timers : RunTimer(cb)

SpecGui == InitGui /\ [][NextGui]_vars

\* The solver thread is scheduled and Tk's event loop runs its timers.
SpecGuiFair ==
    /\ SpecGui
    /\ WF_vars(WorkerRead)
    /\ WF_vars(WorkerSolve)
    /\ WF_vars(WorkerPost)
    /\ WF_vars(\E cb \in timers : RunTimer(cb))

-----------------------------------------------------------------------------
(* Claims about the GUI (checked under SpecGui and SpecGuiFair). *)

\* The handlers a user event runs.
UserHandlers == {"load_image", "on_tile_click", "shuffle", "solve"}

\* C19: while _solving is set, whatever the interleaving of user events, the
\* solver thread and the timer callbacks: at most one solver thread exists
\* (and only while _solving is set); a user event leaves the board state as it
\* was; the board state is changed by _animate_solution alone; so the state
\* the thread has read is still the board's state while solve_puzzle runs and
\* when its moves are handed over for replay.
C19_SolveOwnsTheBoard ==
    /\ [](threads <= 1)
    /\ [](worker # "none" => solving /\ threads = 1 /\ timers = {} /\ ~dialog)
    /\ [](worker = "running" => start = state)
    /\ [](timers # {} => solving /\ Cardinality(timers) = 1)
    /\ [][solving =>
             /\ ev' \in UserHandlers => state' = state /\ solving'
             /\ state' # state => ev' = "_animate_solution"
             /\ timers' # timers /\ timers = {} => start = state /\ state' = state]_vars

\* C19 witness: while solve_puzzle runs on the thread for a 3x3 board, the
\* user has clicked a tile next to the blank, and the board is still the
\* state the thread read.
C19_Witness ==
    /\ solving
    /\ worker = "running"
    /\ pc = "loop"
    /\ Len(pops) >= 2
    /\ grid_size = 3
    /\ ev = "on_tile_click"
    /\ state = start

\* C20: every solve started (the boards the GUI holds are solvable) ends:
\* _solving is false again and the Shuffle and Solve buttons are enabled, with
\* status 'Solved!'.  solve_puzzle does not fail on the thread, the replay
\* never sets 'Solver encountered an invalid move.', and when
\* _animate_solution sets 'Solved!' the board state is solved.
C20_SolveEndsSolved ==
    /\ [](state # None => Solvable(state))
    /\ [](pc # "failed" /\ (pc = "loop" => frontier # {}))
    /\ [](\A cb \in timers : cb.callback = "_animate_solution")
    /\ [](status # StatusInvalidMove)
    /\ [](ev = "_animate_solution" /\ status = StatusSolved => InOrder(state))
    /\ [](~solving /\ state # None /\ state.size >= 2 => shuffle_btn /\ solve_btn)
    /\ solving ~> (~solving /\ shuffle_btn /\ solve_btn
                     /\ status = StatusSolved /\ InOrder(state))

\* C20 witness: the replay of a 3x3 solve has ended: 'Solved!' is shown, the
\* board is solved, _solving is false and both buttons are enabled.
C20_Witness ==
    /\ grid_size = 3
    /\ ev = "_animate_solution"
    /\ status = StatusSolved
    /\ ~solving
    /\ shuffle_btn
    /\ solve_btn
    /\ InOrder(state)
    /\ timers = {}

=============================================================================
